---- MODULE Spec2Model ----
(***************************************************************************)
(* Model of the todo-list client: the useTodos hook (src/hooks/useTodos.ts),*)
(* the todoApi requests it awaits, the TodoProvider that holds the single  *)
(* hook instance and useTodoContext that hands its value to consumers.     *)
(*                                                                         *)
(* An operation of the hook is an async function: the part before the      *)
(* await is one step (the click handler), the request is then in flight,   *)
(* the remote API settles it, and the part after the await (try / catch /  *)
(* finally) is a second step.  Several operations may be in flight at once *)
(* and settle in any order.                                                *)
(***************************************************************************)
EXTENDS Integers, Sequences, FiniteSets, TLC

\* todos, isLoading, error : the three useState slots of useTodos (useTodos.ts:6-8)
\* mounted     : the mount effect has run (useTodos.ts:10-12)
\* reqs        : every todoApi request issued so far, in order of issue, with the
\*               closure of the operation awaiting it
\* serverTodos : the collection behind API_URL;  nextId : the id it gives next
\* consumer    : a component calling useTodoContext, below the provider or not
\* call        : one call of a todoApi function, from its fetch() to its outcome
\* path        : the location, as the segments of its pathname
\* query       : the entry of the query cache that TodoDetailPage observes
\* todoName    : the useState slot of TodoForm, the value of its input
VARIABLES todos, isLoading, error, mounted, reqs, serverTodos, nextId, consumer,
          call, path, query, todoName

vars == <<todos, isLoading, error, mounted, reqs, serverTodos, nextId, consumer,
          call, path, query, todoName>>

pageVars == <<path, query, todoName>>

hookVars == <<todos, isLoading, error, mounted, reqs, serverTodos, nextId, consumer>>

\* ---- bounds ----
MaxReqs == 3
Names == {"a", "b"}

\* ---- values ----
Null == "null"
ErrLoad == "failed to load todos"
ErrAdd == "failed to add todos"
ErrDelete == "failed to delete todo"
ErrToggle == "failed to toggle todo"
ContextErrorMessage == "nejakej error"

Todo(id, name, completed) == [id |-> id, name |-> name, completed |-> completed]
NoTodo == Todo(0, "", FALSE)

InitialServerLists == {<<>>, <<Todo(1, "a", FALSE)>>}

\* ---- Array helpers ----
RECURSIVE Filter(_, _)
Filter(s, todoId) ==
    IF s = <<>> THEN <<>>
    ELSE IF Head(s).id # todoId THEN <<Head(s)>> \o Filter(Tail(s), todoId)
         ELSE Filter(Tail(s), todoId)

MapReplace(s, todoId, updatedTodo) ==
    [k \in 1..Len(s) |-> IF s[k].id = todoId THEN updatedTodo ELSE s[k]]

HasId(s, todoId) == \E k \in 1..Len(s) : s[k].id = todoId

\* ---- todoApi ----
NoBody == [none |-> TRUE]
NaN == -1
Ids == {1, 2, NaN}

\* the todoApi function each caller awaits
ApiOf(caller) ==
    CASE caller = "fetch" -> "fetchTodos"
      [] caller = "add" -> "createTodo"
      [] caller = "delete" -> "deleteTodo"
      [] caller = "toggle" -> "toggleTodo"
      [] caller = "detail" -> "fetchTodo"

HookCallers == {"fetch", "add", "delete", "toggle"}
Callers == HookCallers \cup {"detail"}

JsonHeaders == {<<"Content-type", "application/json">>}

\* (mutant) toggleTodo sending PUT to the collection, not PATCH to the item
todoApiTogglePut(api, id, name, completed) ==
    CASE api = "fetchTodos" ->
           <<[method |-> "GET", target |-> <<>>, headers |-> {}, body |-> NoBody]>>
      [] api = "createTodo" ->
           <<[method |-> "POST", target |-> <<>>, headers |-> JsonHeaders,
              body |-> [name |-> name]]>>
      [] api = "fetchTodo" ->
           <<[method |-> "GET", target |-> <<id>>, headers |-> {}, body |-> NoBody]>>
      [] api = "deleteTodo" ->
           <<[method |-> "DELETE", target |-> <<id>>, headers |-> {}, body |-> NoBody]>>
      [] api = "toggleTodo" ->
           <<[method |-> "PUT", target |-> <<>>, headers |-> JsonHeaders,
              body |-> [completed |-> completed]]>>

\* the fetch() calls a todoApi function makes: method, target below API_URL,
\* headers and JSON body
todoApi(api, id, name, completed) ==
    CASE api = "fetchTodos" ->
           <<[method |-> "GET", target |-> <<>>, headers |-> {}, body |-> NoBody]>>
      [] api = "createTodo" ->
           <<[method |-> "POST", target |-> <<>>, headers |-> JsonHeaders,
              body |-> [name |-> name]]>>
      [] api = "fetchTodo" ->
           <<[method |-> "GET", target |-> <<id>>, headers |-> {}, body |-> NoBody]>>
      [] api = "deleteTodo" ->
           <<[method |-> "DELETE", target |-> <<id>>, headers |-> {}, body |-> NoBody]>>
      [] api = "toggleTodo" ->
           <<[method |-> "PATCH", target |-> <<id>>, headers |-> JsonHeaders,
              body |-> [completed |-> completed]]>>

\* what fetch() can come back with: a rejection, or a response with a status
\* and a body that is JSON text or not (an empty 204 body is not)
Statuses == {200, 201, 204, 404, 500}
JsonValue(kind, list, todo) == [kind |-> kind, list |-> list, todo |-> todo]
JsonNull == JsonValue("null", <<>>, NoTodo)
Bodies ==
    {JsonNull, JsonValue("array", <<>>, NoTodo),
     JsonValue("array", <<Todo(1, "a", FALSE)>>, NoTodo),
     JsonValue("object", <<>>, Todo(1, "a", FALSE))}
Rejected == [rejected |-> TRUE, status |-> 0, isJson |-> FALSE, body |-> JsonNull]
Response(status, isJson, body) ==
    [rejected |-> FALSE, status |-> status, isJson |-> isJson, body |-> body]
Outcomes ==
    {Rejected} \cup {Response(st, TRUE, b) : st \in Statuses, b \in Bodies}
               \cup {Response(st, FALSE, JsonNull) : st \in Statuses}

\* Response.ok
Ok(response) == response.status >= 200 /\ response.status <= 299

Threw(name, message) == [threw |-> TRUE, name |-> name, message |-> message, value |-> JsonNull]
Returned(value) == [threw |-> FALSE, name |-> "", message |-> <<>>, value |-> value]

\* response.json()
Json(response) ==
    IF response.isJson THEN Returned(response.body)
    ELSE Threw("SyntaxError", <<"Unexpected end of JSON input">>)

\* (mutant) the ok check left out: every body is parsed
handleResponseNoCheck(response) == Json(response)

handleResponse(response) ==
    IF ~Ok(response) THEN Threw("APIError", <<"API failed", response.status>>)
    ELSE Json(response)

\* await fetch(...) followed by handleResponse
ApiResult(outcome) ==
    IF outcome.rejected THEN Threw("TypeError", <<"Failed to fetch">>)
    ELSE handleResponse(outcome)

NoCall ==
    [phase |-> "idle", caller |-> "", api |-> "", requests |-> <<>>,
     args |-> [id |-> 0, name |-> "", completed |-> FALSE],
     outcome |-> Rejected, result |-> Returned(JsonNull)]

\* ---- requests ----
\* A request as issued by todoApi: its operation, target id, JSON body, what the
\* calling closure holds (the todo it was given, the todos of its render), who
\* started it, whether any other request was in flight at that time, and how
\* far it got.
Request(op, by, id, name, completed, todo, captured) ==
    [op |-> op, by |-> by, id |-> id, name |-> name, completed |-> completed,
     todo |-> todo, captured |-> captured,
     alone |-> \A j \in 1..Len(reqs) : reqs[j].status = "done",
     http |-> todoApi(ApiOf(op), id, name, completed),
     status |-> "sent", ok |-> FALSE, list |-> <<>>, data |-> NoTodo]

InFlight(i) == reqs[i].status # "done"
AnyInFlight == \E i \in 1..Len(reqs) : InFlight(i)

\* ---- context ----
Undefined == [undefined |-> TRUE]
Operations == {"addTodo", "deleteTodo", "toggleTodo", "refetch"}

\* the object useTodos returns, which TodoProvider passes as the context value
useTodosValue(t, l, e) ==
    [todos |-> t, isLoading |-> l, error |-> e, operations |-> Operations]

TodoProviderValue == useTodosValue(todos, isLoading, error)

\* (mutant) the undefined check left out
useTodoContextNoThrow(context) == [threw |-> FALSE, message |-> "", value |-> context]

useTodoContext(context) ==
    IF context = Undefined
    THEN [threw |-> TRUE, message |-> ContextErrorMessage, value |-> Undefined]
    ELSE [threw |-> FALSE, message |-> "", value |-> context]

NotRendered == [rendered |-> FALSE, inside |-> FALSE, out |-> useTodoContextNoThrow(Undefined)]

\* React renders a consumer again whenever the provider's value changes.
Rerender ==
    consumer' = IF consumer.rendered /\ consumer.inside
                THEN [consumer EXCEPT !.out = useTodoContext(TodoProviderValue')]
                ELSE consumer

\* ---- routes ----
MaxPathLen == 3
Segments == {"todos", "1", "01", "x"}
Paths == UNION {[1..n -> Segments] : n \in 0..MaxPathLen}

\* <Routes> of App: the index route, the detail route and the catch-all
RouteTable ==
    <<[pattern |-> <<>>, splat |-> FALSE, element |-> "TodoListPage"],
      [pattern |-> <<"todos", ":id">>, splat |-> FALSE, element |-> "TodoDetailPage"],
      [pattern |-> <<>>, splat |-> TRUE, element |-> "nenalezeno"]>>

IsParam(segment) == segment = ":id"

\* (mutant) patterns matched as prefixes of the pathname
MatchesPrefix(route, p) ==
    \/ route.splat
    \/ /\ Len(p) >= Len(route.pattern)
       /\ \A k \in 1..Len(route.pattern) : IsParam(route.pattern[k]) \/ route.pattern[k] = p[k]

\* a pattern matches the whole pathname, segment by segment; "*" matches any
Matches(route, p) ==
    \/ route.splat
    \/ /\ Len(p) = Len(route.pattern)
       /\ \A k \in 1..Len(route.pattern) : IsParam(route.pattern[k]) \/ route.pattern[k] = p[k]

\* the elements <Routes> renders for a pathname: that of the first matching
\* route, a catch-all ranking below every other route
Routes(p) ==
    LET matching == {i \in 1..Len(RouteTable) : Matches(RouteTable[i], p)}
        best == {i \in matching : \A j \in matching :
                    \/ RouteTable[i].splat = RouteTable[j].splat /\ i <= j
                    \/ ~RouteTable[i].splat /\ RouteTable[j].splat}
    IN {RouteTable[i].element : i \in best}

\* useParams().id on the detail route
ParamId(p) == p[2]

\* unary plus on a route parameter
ToNumber(segment) ==
    CASE segment = "1" -> 1
      [] segment = "01" -> 1
      [] segment = "2" -> 2
      [] OTHER -> NaN

\* ---- useQuery of TodoDetailPage ----
DefaultRetry == 3

NoQuery ==
    [key |-> "", observed |-> FALSE, status |-> "pending", fetching |-> FALSE,
     hasData |-> FALSE, data |-> NoTodo, failureCount |-> 0, requests |-> <<>>]

\* queryFn: () => todoApi.fetchTodo(+params.id); a query that never had data
\* goes back to pending when a fetch starts
StartFetch(q) ==
    [q EXCEPT !.fetching = TRUE, !.failureCount = 0,
              !.status = IF q.hasData THEN q.status ELSE "pending",
              !.requests = todoApi(ApiOf("detail"), ToNumber(q.key), "", FALSE)]

\* what useQuery hands to the component
UseQuery(q) ==
    [data |-> q.data, hasData |-> q.hasData,
     isLoading |-> q.fetching /\ q.status = "pending",
     isError |-> q.status = "error"]

\* (mutant) no early return on isError
TodoDetailPageNoReturn(id, r) ==
    [error |-> r.isError, loading |-> r.isLoading, loadingId |-> id,
     todo |-> r.hasData, json |-> r.data]

TodoDetailPage(id, r) ==
    IF r.isError
    THEN [error |-> TRUE, loading |-> FALSE, loadingId |-> id, todo |-> FALSE, json |-> NoTodo]
    ELSE [error |-> FALSE, loading |-> r.isLoading, loadingId |-> id,
          todo |-> r.hasData, json |-> r.data]

DetailShown == Routes(path) = {"TodoDetailPage"}
DetailView == TodoDetailPage(ParamId(path), UseQuery(query))

\* ---- initial state ----
Init ==
    /\ todos = <<>>
    /\ isLoading = FALSE
    /\ error = Null
    /\ mounted = FALSE
    /\ reqs = <<>>
    /\ serverTodos \in InitialServerLists
    /\ nextId = Len(serverTodos) + 1
    /\ consumer = NotRendered
    /\ call = NoCall
    /\ path = <<>>
    /\ query = NoQuery
    /\ todoName = ""

\* ---- the part of each operation before its await ----
\* (mutant) setError(null) left out
BeginKeepsError(req) ==
    /\ error' = error
    /\ isLoading' = TRUE
    /\ reqs' = Append(reqs, req)
    /\ UNCHANGED <<todos, serverTodos, nextId, call, pageVars>>
    /\ Rerender

\* setError(null); setIsLoading(true); ... await todoApi...
Begin(req) ==
    /\ error' = Null
    /\ isLoading' = TRUE
    /\ reqs' = Append(reqs, req)
    /\ UNCHANGED <<todos, serverTodos, nextId, call, pageVars>>
    /\ Rerender

\* (mutant) fetchTodos without its setError(null)
fetchTodosKeepsError(by) ==
    BeginKeepsError(Request("fetch", by, 0, "", FALSE, NoTodo, todos))

fetchTodos(by) == Begin(Request("fetch", by, 0, "", FALSE, NoTodo, todos))

\* (mutant) the effect without its empty dependency array: runs after every render
MountEveryRender ==
    /\ Len(reqs) < MaxReqs
    /\ mounted' = TRUE
    /\ fetchTodos("effect")

\* useEffect(() => { fetchTodos() }, []) : runs once, after the first render
Mount ==
    /\ ~mounted
    /\ mounted' = TRUE
    /\ fetchTodos("effect")

\* the button of ErrorMessage, rendered only while error is set
Refetch ==
    /\ mounted
    /\ error # Null
    /\ Len(reqs) < MaxReqs
    /\ fetchTodos("user")
    /\ UNCHANGED mounted

\* (mutant) a guard that drops the call while another operation is loading
addTodoGuarded(name) ==
    /\ mounted
    /\ ~isLoading
    /\ Len(reqs) < MaxReqs
    /\ Begin(Request("add", "user", 0, name, FALSE, NoTodo, todos))
    /\ UNCHANGED mounted

addTodo(name) ==
    /\ mounted
    /\ Len(reqs) < MaxReqs
    /\ Begin(Request("add", "user", 0, name, FALSE, NoTodo, todos))
    /\ UNCHANGED mounted

\* the Delete button of the k-th rendered TodoItem
deleteTodo(k) ==
    /\ mounted
    /\ Len(reqs) < MaxReqs
    /\ Begin(Request("delete", "user", todos[k].id, "", FALSE, todos[k], todos))
    /\ UNCHANGED mounted

\* (mutant) the flag sent as it is, not negated
ToggleBodyKeep(todo) == todo.completed

ToggleBody(todo) == ~todo.completed

\* the toggle button of the k-th rendered TodoItem
toggleTodo(k) ==
    /\ mounted
    /\ Len(reqs) < MaxReqs
    /\ Begin(Request("toggle", "user", todos[k].id, "", ToggleBody(todos[k]), todos[k], todos))
    /\ UNCHANGED mounted

\* ---- the remote API settles a request ----
Settle(i, ok, list, data) ==
    reqs' = [reqs EXCEPT ![i].status = "settled", ![i].ok = ok,
                         ![i].list = list, ![i].data = data]

\* response.ok: handleResponse returns the parsed body
ApiOk(i) ==
    /\ reqs[i].status = "sent"
    /\ LET r == reqs[i] IN
       CASE r.op = "fetch" ->
              /\ Settle(i, TRUE, serverTodos, NoTodo)
              /\ UNCHANGED <<serverTodos, nextId>>
         [] r.op = "add" ->
              /\ Settle(i, TRUE, <<>>, Todo(nextId, r.name, FALSE))
              /\ serverTodos' = Append(serverTodos, Todo(nextId, r.name, FALSE))
              /\ nextId' = nextId + 1
         [] r.op = "delete" ->
              /\ HasId(serverTodos, r.id)
              /\ Settle(i, TRUE, <<>>, NoTodo)
              /\ serverTodos' = Filter(serverTodos, r.id)
              /\ UNCHANGED nextId
         [] r.op = "toggle" ->
              /\ HasId(serverTodos, r.id)
              /\ LET cur == CHOOSE t \in {serverTodos[k] : k \in 1..Len(serverTodos)} : t.id = r.id
                     upd == [cur EXCEPT !.completed = r.completed]
                 IN /\ Settle(i, TRUE, <<>>, upd)
                    /\ serverTodos' = MapReplace(serverTodos, r.id, upd)
              /\ UNCHANGED nextId
    /\ UNCHANGED <<todos, isLoading, error, mounted, consumer, call, pageVars>>

\* !response.ok (APIError) or a rejected fetch
ApiFail(i) ==
    /\ reqs[i].status = "sent"
    /\ Settle(i, FALSE, <<>>, NoTodo)
    /\ UNCHANGED <<todos, isLoading, error, mounted, serverTodos, nextId, consumer, call, pageVars>>

\* ---- the part of each operation after its await ----
\* (mutant) setIsLoading(false) at the end of the try block, not in finally
FinishNoFinally(i, newTodos, errMsg) ==
    /\ reqs[i].status = "settled"
    /\ todos' = IF reqs[i].ok THEN newTodos ELSE todos
    /\ error' = IF reqs[i].ok THEN error ELSE errMsg
    /\ isLoading' = IF reqs[i].ok THEN FALSE ELSE isLoading
    /\ reqs' = [reqs EXCEPT ![i].status = "done"]
    /\ UNCHANGED <<mounted, serverTodos, nextId, call, pageVars>>
    /\ Rerender

\* try { await ...; setTodos(...) } catch { setError(...) } finally { setIsLoading(false) }
Finish(i, newTodos, errMsg) ==
    /\ reqs[i].status = "settled"
    /\ todos' = IF reqs[i].ok THEN newTodos ELSE todos
    /\ error' = IF reqs[i].ok THEN error ELSE errMsg
    /\ isLoading' = FALSE
    /\ reqs' = [reqs EXCEPT ![i].status = "done"]
    /\ UNCHANGED <<mounted, serverTodos, nextId, call, pageVars>>
    /\ Rerender

\* (mutant) the fetched list appended to the local one
fetchTodosDoneAppend(i) ==
    /\ reqs[i].op = "fetch"
    /\ Finish(i, todos \o reqs[i].list, ErrLoad)

fetchTodosDone(i) ==
    /\ reqs[i].op = "fetch"
    /\ Finish(i, reqs[i].list, ErrLoad)

\* (mutant) the new todo appended to the list of the render addTodo was called in
addTodoDoneStale(i) ==
    /\ reqs[i].op = "add"
    /\ Finish(i, Append(reqs[i].captured, reqs[i].data), ErrAdd)

\* (mutant) the request body stored with the new id, not the server's todo
addTodoDoneNoFlag(i) ==
    /\ reqs[i].op = "add"
    /\ Finish(i, Append(todos, [id |-> reqs[i].data.id, name |-> reqs[i].name]), ErrAdd)

\* (mutant) a message that is not the operation's own
addTodoDoneOtherMessage(i) ==
    /\ reqs[i].op = "add"
    /\ Finish(i, Append(todos, reqs[i].data), "failed to add todo")

addTodoDone(i) ==
    /\ reqs[i].op = "add"
    /\ Finish(i, Append(todos, reqs[i].data), ErrAdd)

\* setTodos(() => todos.filter(...)) : todos is the list of the render the
\* handler was created in, not the list at the time of the update
deleteTodoDone(i) ==
    /\ reqs[i].op = "delete"
    /\ Finish(i, Filter(reqs[i].captured, reqs[i].id), ErrDelete)

\* (mutant) the server's todo dropped: the entry is kept as it was
toggleTodoDoneKeepsEntry(i) ==
    /\ reqs[i].op = "toggle"
    /\ Finish(i, MapReplace(todos, reqs[i].todo.id, reqs[i].todo), ErrToggle)

\* (mutant) the message of deleteTodo copied into toggleTodo
toggleTodoDoneDeleteMessage(i) ==
    /\ reqs[i].op = "toggle"
    /\ Finish(i, MapReplace(todos, reqs[i].todo.id, reqs[i].data), ErrDelete)

toggleTodoDone(i) ==
    /\ reqs[i].op = "toggle"
    /\ Finish(i, MapReplace(todos, reqs[i].todo.id, reqs[i].data), ErrToggle)

\* ---- the todo list view ----
\* JavaScript truthiness of string | null, as in {error && ...}
Truthy(str) == str # Null /\ str # ""

TodoItem(todo) ==
    [key |-> todo.id, name |-> todo.name,
     className |-> IF todo.completed THEN "completed" ELSE "",
     toggleLabel |-> IF todo.completed THEN "Undo" ELSE "Complete",
     link |-> <<"todos", todo.id>>]

NoMessage == [shown |-> FALSE, message |-> "", button |-> ""]

ErrorMessage(message, onDissmiss) ==
    [shown |-> TRUE, message |-> message,
     button |-> IF onDissmiss \in Operations THEN onDissmiss ELSE ""]

\* (mutant) the spinner shown whenever isLoading, also over a non-empty list
TodosSectionSpinnerAlways(value) ==
    [errorMessage |-> IF Truthy(value.error) THEN ErrorMessage(value.error, "refetch") ELSE NoMessage,
     listClass |-> IF value.isLoading THEN "isLoading" ELSE "",
     items |-> [k \in 1..Len(value.todos) |-> TodoItem(value.todos[k])],
     spinner |-> value.isLoading]

TodosSection(value) ==
    [errorMessage |-> IF Truthy(value.error) THEN ErrorMessage(value.error, "refetch") ELSE NoMessage,
     listClass |-> IF value.isLoading THEN "isLoading" ELSE "",
     items |-> [k \in 1..Len(value.todos) |-> TodoItem(value.todos[k])],
     spinner |-> value.isLoading /\ Len(value.todos) = 0]

\* what the list page shows: TodosSection rendered from the context value
ListShown == consumer.rendered /\ consumer.inside
ListView == TodosSection(consumer.out.value)

\* ---- a component calling useTodoContext ----
RenderConsumer(inside) ==
    /\ ~consumer.rendered
    /\ consumer' = [rendered |-> TRUE, inside |-> inside,
                    out |-> useTodoContext(IF inside THEN TodoProviderValue ELSE Undefined)]
    /\ UNCHANGED <<todos, isLoading, error, mounted, reqs, serverTodos, nextId, call, pageVars>>

Next ==
    \/ Mount
    \/ Refetch
    \/ \E n \in Names : addTodo(n)
    \/ \E k \in 1..Len(todos) : deleteTodo(k)
    \/ \E k \in 1..Len(todos) : toggleTodo(k)
    \/ \E i \in 1..Len(reqs) : ApiOk(i)
    \/ \E i \in 1..Len(reqs) : ApiFail(i)
    \/ \E i \in 1..Len(reqs) : fetchTodosDone(i)
    \/ \E i \in 1..Len(reqs) : addTodoDone(i)
    \/ \E i \in 1..Len(reqs) : deleteTodoDone(i)
    \/ \E i \in 1..Len(reqs) : toggleTodoDone(i)
    \/ \E inside \in BOOLEAN : RenderConsumer(inside)

Spec == Init /\ [][Next]_vars

\* ---- todoApi on its own: any caller, any arguments, any outcome of fetch ----
ApiCall(caller, id, name, completed) ==
    /\ call.phase # "sent"
    /\ call' = [NoCall EXCEPT !.phase = "sent", !.caller = caller, !.api = ApiOf(caller),
                              !.args = [id |-> id, name |-> name, completed |-> completed],
                              !.requests = todoApi(ApiOf(caller), id, name, completed)]
    /\ UNCHANGED <<hookVars, pageVars>>

ApiSettle(outcome) ==
    /\ call.phase = "sent"
    /\ call' = [call EXCEPT !.phase = "settled", !.outcome = outcome,
                            !.result = ApiResult(outcome)]
    /\ UNCHANGED <<hookVars, pageVars>>

ApiNext ==
    \/ ApiCall("fetch", 0, "", FALSE)
    \/ \E n \in Names : ApiCall("add", 0, n, FALSE)
    \/ \E id \in Ids : ApiCall("detail", id, "", FALSE)
    \/ \E id \in Ids \ {NaN} : ApiCall("delete", id, "", FALSE)
    \/ \E id \in Ids \ {NaN}, c \in BOOLEAN : ApiCall("toggle", id, "", c)
    \/ \E o \in Outcomes : ApiSettle(o)

SpecApi == Init /\ [][ApiNext]_vars

\* ---- the todo form ----
\* what can be typed into the input
Inputs == {"", "a", "b", "ab"}

\* onChange of the input: setTodoName(event.target.value)
handleInputChange(value) ==
    /\ value # todoName
    /\ todoName' = value
    /\ UNCHANGED <<hookVars, call, path, query>>

\* (mutant) an empty input is not submitted
handleSubmitSkipsEmpty ==
    /\ todoName # ""
    /\ addTodo(todoName)

\* onClick of the Add button: addTodo(todoName); the input keeps its value
handleSubmit == addTodo(todoName)

FormNext ==
    \/ Mount
    \/ \E value \in Inputs : handleInputChange(value)
    \/ handleSubmit

SpecForm == Init /\ [][FormNext]_vars

\* ---- the router and the detail page ----
\* a new location; the detail page mounts its query observer, which fetches
\* unless a fetch of that key is already running
Navigate(p) ==
    /\ p # path
    /\ path' = p
    /\ query' = IF Routes(p) = {"TodoDetailPage"}
                THEN IF query.key = ParamId(p)
                     THEN IF query.fetching THEN [query EXCEPT !.observed = TRUE]
                          ELSE StartFetch([query EXCEPT !.observed = TRUE])
                     ELSE StartFetch([NoQuery EXCEPT !.key = ParamId(p), !.observed = TRUE])
                ELSE [query EXCEPT !.observed = FALSE]
    /\ UNCHANGED <<hookVars, call, todoName>>

\* the window gets the focus back: an observed query is fetched again
Refocus ==
    /\ query.observed /\ ~query.fetching
    /\ query' = StartFetch(query)
    /\ UNCHANGED <<hookVars, call, path, todoName>>

\* fetchTodo resolves with the todo of that id
QuerySuccess ==
    /\ query.fetching
    /\ HasId(serverTodos, query.requests[1].target[1])
    /\ query' = [query EXCEPT !.fetching = FALSE, !.status = "success", !.hasData = TRUE,
                              !.failureCount = 0, !.requests = <<>>,
                              !.data = CHOOSE t \in {serverTodos[k] : k \in 1..Len(serverTodos)} :
                                           t.id = query.requests[1].target[1]]
    /\ UNCHANGED <<hookVars, call, path, todoName>>

\* fetchTodo rejects: retried DefaultRetry times, then the query is in error
QueryFailure ==
    /\ query.fetching
    /\ query' = IF query.failureCount < DefaultRetry
                THEN [query EXCEPT !.failureCount = @ + 1]
                ELSE [query EXCEPT !.fetching = FALSE, !.status = "error", !.requests = <<>>]
    /\ UNCHANGED <<hookVars, call, path, todoName>>

PagesNext ==
    \/ \E p \in Paths : Navigate(p)
    \/ Refocus
    \/ QuerySuccess
    \/ QueryFailure

SpecPages == Init /\ [][PagesNext]_vars

\* ---- properties ----
\* the step in which the continuation of request i runs
Completes(i) == reqs[i].status = "settled" /\ reqs'[i].status = "done"
\* the step in which an operation op is started
Starts(op) == Len(reqs') = Len(reqs) + 1 /\ reqs'[Len(reqs')].op = op
Done(i, op, ok) == reqs[i].op = op /\ reqs[i].status = "done" /\ reqs[i].ok = ok
ErrorOf(op) ==
    CASE op = "fetch" -> ErrLoad
      [] op = "add" -> ErrAdd
      [] op = "delete" -> ErrDelete
      [] op = "toggle" -> ErrToggle

\* C1: when a fetchTodos call completes successfully, the local list becomes
\* exactly the list of that response, whatever it held before.
C1_FetchReplacesList ==
    [][\A i \in 1..Len(reqs) :
        (reqs[i].op = "fetch" /\ reqs[i].ok /\ Completes(i)) => todos' = reqs[i].list]_vars

\* a refetch has succeeded and replaced a list that differed from the one it
\* was started with
C1_Witness ==
    \E i \in 1..Len(reqs) :
        /\ Done(i, "fetch", TRUE) /\ reqs[i].by = "user"
        /\ todos = reqs[i].list /\ todos # <<>> /\ reqs[i].captured # todos

\* C2: when addTodo completes successfully, the server's todo is appended to
\* the local list as it is when the response is processed; all entries already
\* there are kept in order.
C2_AddAppends ==
    [][\A i \in 1..Len(reqs) :
        (reqs[i].op = "add" /\ reqs[i].ok /\ Completes(i))
            => todos' = Append(todos, reqs[i].data)]_vars

\* an add has succeeded after the list changed while it was in flight
C2_Witness ==
    \E i \in 1..Len(reqs) :
        /\ Done(i, "add", TRUE)
        /\ Len(todos) >= 2 /\ todos[Len(todos)] = reqs[i].data
        /\ reqs[i].captured # SubSeq(todos, 1, Len(todos) - 1)

\* C3: when deleteTodo(id) completes successfully, the local list has no entry
\* with that id and keeps every other entry it held when the response is
\* processed, in order.
C3_DeleteKeepsOthers ==
    [][\A i \in 1..Len(reqs) :
        (reqs[i].op = "delete" /\ reqs[i].ok /\ Completes(i))
            => (~HasId(todos', reqs[i].id) /\ todos' = Filter(todos, reqs[i].id))]_vars

\* C4: toggleTodo(todo) sends the negation of the given todo's completed flag,
\* and on success replaces the local entry with that id by the server's todo,
\* leaving the other entries, the length and the order as they are.
C4_ToggleReplacesEntry ==
    [][/\ Starts("toggle") =>
            LET r == reqs'[Len(reqs')] IN
            /\ r.id = r.todo.id
            /\ r.completed = ~r.todo.completed
            /\ \E k \in 1..Len(todos) : todos[k] = r.todo
       /\ \A i \in 1..Len(reqs) :
            (reqs[i].op = "toggle" /\ reqs[i].ok /\ Completes(i)) =>
                /\ Len(todos') = Len(todos)
                /\ \A k \in 1..Len(todos) :
                      todos'[k] = IF todos[k].id = reqs[i].todo.id
                                  THEN reqs[i].data ELSE todos[k]]_vars

\* a toggle has succeeded in a list of two entries, one of them the server's
\* todo, now completed
C4_Witness ==
    \E i \in 1..Len(reqs) :
        /\ Done(i, "toggle", TRUE)
        /\ Len(todos) = 2
        /\ reqs[i].data.completed
        /\ \E k \in 1..2 : todos[k] = reqs[i].data /\ todos[3 - k].id # reqs[i].id

\* C5: when the request of an operation fails, the local list is unchanged and
\* error is that operation's fixed message.
C5_FailureSetsMessage ==
    [][\A i \in 1..Len(reqs) :
        (~reqs[i].ok /\ Completes(i))
            => (todos' = todos /\ error' = ErrorOf(reqs[i].op))]_vars

\* a toggle has failed, its message is shown and the list is still there
C5_Witness ==
    \E i \in 1..Len(reqs) :
        Done(i, "toggle", FALSE) /\ error = ErrToggle /\ todos # <<>>

\* C6: error is null or one of the four fixed messages.
C6_ErrorValues == error \in {Null, ErrLoad, ErrAdd, ErrDelete, ErrToggle}

\* an add has failed and its message is held
C6_Witness == error = ErrAdd /\ \E i \in 1..Len(reqs) : Done(i, "add", FALSE)

\* C7: isLoading is true whenever at least one request is still in flight.
C7_LoadingWhileInFlight == AnyInFlight => isLoading

\* C8: whenever no request is in flight, isLoading is false.
C8_IdleNotLoading == ~AnyInFlight => ~isLoading

\* every request is over, one of them failed, and the flag is down
C8_Witness ==
    /\ Len(reqs) >= 2 /\ ~AnyInFlight /\ ~isLoading
    /\ \E i \in 1..Len(reqs) : ~reqs[i].ok
    /\ \E i \in 1..Len(reqs) : reqs[i].ok

\* C9: the hook starts with todos = [], isLoading = false, error = null; the
\* mount issues exactly one fetchTodos without user action, and every further
\* fetch comes from refetch.
EffectFetches == {i \in 1..Len(reqs) : reqs[i].by = "effect"}
C9_OneMountFetch ==
    /\ [](/\ reqs = <<>> => (~mounted /\ todos = <<>> /\ ~isLoading /\ error = Null)
          /\ Cardinality(EffectFetches) = (IF mounted THEN 1 ELSE 0)
          /\ mounted => (reqs # <<>> /\ reqs[1].op = "fetch" /\ reqs[1].by = "effect"))
    /\ [][Starts("fetch") => (~mounted \/ error # Null)]_vars

\* mounted, the mount fetch is over, other operations ran, still one mount fetch
C9_Witness ==
    /\ mounted /\ Len(reqs) = MaxReqs /\ ~AnyInFlight
    /\ Cardinality(EffectFetches) = 1
    /\ \E i \in 2..Len(reqs) : reqs[i].op = "fetch" /\ reqs[i].by = "user"

\* C10: useTodoContext throws when there is no provider above the caller, and
\* otherwise returns the provider's value: the state and operations of the
\* provider's useTodos instance.
C10_ContextOrThrow ==
    consumer.rendered =>
        IF consumer.inside
        THEN /\ ~consumer.out.threw
             /\ consumer.out.value = useTodosValue(todos, isLoading, error)
        ELSE consumer.out.threw /\ consumer.out.message = ContextErrorMessage

\* a consumer below the provider sees a loaded list
C10_Witness ==
    /\ consumer.rendered /\ consumer.inside
    /\ consumer.out.value.todos # <<>> /\ consumer.out.value.todos = todos

\* C13: a successful toggle of a task whose completed flag is false leaves that
\* task in the local list with completed = true, and one of a completed task
\* leaves it with completed = false.
C13_ToggleFlipsFlag ==
    [][\A i \in 1..Len(reqs) :
        (reqs[i].op = "toggle" /\ reqs[i].ok /\ Completes(i)) =>
            /\ \A k \in 1..Len(todos') :
                  todos'[k].id = reqs[i].todo.id
                      => todos'[k].completed = ~reqs[i].todo.completed
            /\ HasId(todos, reqs[i].todo.id) => HasId(todos', reqs[i].todo.id)]_vars

\* a task that was not completed when clicked is in the list, completed
C13_Witness ==
    \E i \in 1..Len(reqs) :
        /\ Done(i, "toggle", TRUE) /\ ~reqs[i].todo.completed
        /\ \E k \in 1..Len(todos) : todos[k].id = reqs[i].todo.id /\ todos[k].completed

\* C14: there is an operation that restricts the shown list to the completed or
\* to the not-completed todos.
OnlyStatus(s, completed) == SelectSeq(s, LAMBDA t : t.completed = completed)
C14_CanFilterByStatus ==
    \A c \in BOOLEAN :
        (ListShown /\ Len(reqs) < MaxReqs /\ OnlyStatus(todos, c) # todos)
            => ENABLED (/\ Next
                        /\ todos' = todos
                        /\ ListView'.items = [k \in 1..Len(OnlyStatus(todos, c)) |->
                                                 TodoItem(OnlyStatus(todos, c)[k])])

\* C15: every entry of the local list has a numeric id, a name and a boolean
\* completed flag.
C15_TodoShape ==
    \A k \in 1..Len(todos) :
        /\ {"id", "name", "completed"} \subseteq DOMAIN todos[k]
        /\ todos[k].id \in Nat
        /\ todos[k].name \in STRING
        /\ todos[k].completed \in BOOLEAN

\* the list holds a todo created by addTodo and one loaded by fetchTodos
C15_Witness ==
    /\ Len(todos) >= 2
    /\ \E i \in 1..Len(reqs) : Done(i, "add", TRUE) /\ todos[Len(todos)] = reqs[i].data
    /\ \E i \in 1..Len(reqs) : Done(i, "fetch", TRUE) /\ todos[1] = reqs[i].list[1]

\* C16: starting any operation sets error to null and isLoading to true, so the
\* message of an earlier failure is cleared by the start of any later operation.
C16_StartClearsError ==
    [][Len(reqs') = Len(reqs) + 1 => (error' = Null /\ isLoading' /\ todos' = todos)]_vars

\* an operation failed, then a different operation was started: no message
C16_Witness ==
    \E i, j \in 1..Len(reqs) :
        /\ i < j /\ reqs[i].status = "done" /\ ~reqs[i].ok
        /\ reqs[j].op \notin {reqs[i].op, "fetch"} /\ reqs[j].status = "sent"
        /\ error = Null /\ isLoading

\* C17 as stated: addTodo, deleteTodo, toggleTodo and refetch can each be
\* started while isLoading is true.
C17_AllStartWhileLoading ==
    (mounted /\ isLoading /\ Len(reqs) < MaxReqs) =>
        /\ \A n \in Names : ENABLED addTodo(n)
        /\ \A k \in 1..Len(todos) : ENABLED deleteTodo(k) /\ ENABLED toggleTodo(k)
        /\ ENABLED Refetch

\* C17 amended: addTodo, deleteTodo and toggleTodo can each be started while
\* isLoading is true; refetch can be started while other requests are in
\* flight, but only while error is set, when isLoading is false.  Each start
\* issues its own request and leaves the requests in flight as they are.
C17_StartWhileLoading ==
    /\ []((mounted /\ Len(reqs) < MaxReqs) =>
            /\ \A n \in Names : ENABLED addTodo(n)
            /\ \A k \in 1..Len(todos) : ENABLED deleteTodo(k) /\ ENABLED toggleTodo(k)
            /\ (error # Null) = ENABLED Refetch
            /\ error # Null => ~isLoading)
    /\ [][Len(reqs') # Len(reqs) =>
            /\ Len(reqs') = Len(reqs) + 1
            /\ SubSeq(reqs', 1, Len(reqs)) = reqs
            /\ reqs'[Len(reqs')].status = "sent"]_vars

\* a toggle was started while isLoading was true and an earlier request was
\* still in flight
C17_Witness ==
    /\ \E i, j \in 1..Len(reqs) :
          i < j /\ reqs[i].status = "sent" /\ reqs[j].status = "sent" /\ reqs[j].op = "toggle"
    /\ isLoading

\* C20: the error message is shown exactly when error is non-null, the spinner
\* exactly when isLoading and the list is empty, the list has the class
\* 'isLoading' exactly when isLoading, and the items are the todos, in order.
C20_ListView ==
    ListShown =>
        /\ ListView.errorMessage.shown = (error # Null)
        /\ ListView.errorMessage.shown => ListView.errorMessage.message = error
        /\ ListView.spinner = (isLoading /\ todos = <<>>)
        /\ (ListView.listClass = "isLoading") = isLoading
        /\ Len(ListView.items) = Len(todos)
        /\ \A k \in 1..Len(todos) :
              /\ ListView.items[k].key = todos[k].id
              /\ ListView.items[k].name = todos[k].name
              /\ (ListView.items[k].className = "completed") = todos[k].completed

\* the list is shown loading over a non-empty list: class set, no spinner
C20_Witness == ListShown /\ isLoading /\ todos # <<>> /\ ~ListView.spinner

\* C18 as stated: a todoApi call yields an APIError 'API failed <status>'
\* exactly when the response is not ok and otherwise the parsed body; a
\* rejected fetch is a failure too.
C18_ErrorIffNotOk ==
    call.phase = "settled" =>
        LET o == call.outcome
            notOk == ~o.rejected /\ o.status \notin 200..299
        IN /\ (call.result.threw /\ call.result.name = "APIError") = notOk
           /\ notOk => call.result.message = <<"API failed", o.status>>
           /\ o.rejected => call.result.threw
           /\ (~o.rejected /\ ~notOk) => call.result = Returned(o.body)

\* C18 amended: APIError 'API failed <status>' exactly when the response is not
\* ok; an ok response yields its parsed body when the body is JSON and the
\* error of response.json() when it is not; a rejected fetch is a failure too.
C18_ErrorIffNotOkOrNotJson ==
    call.phase = "settled" =>
        LET o == call.outcome
            notOk == ~o.rejected /\ o.status \notin 200..299
        IN /\ (call.result.threw /\ call.result.name = "APIError") = notOk
           /\ notOk => call.result.message = <<"API failed", o.status>>
           /\ o.rejected => call.result.threw
           /\ (~o.rejected /\ ~notOk /\ o.isJson) => call.result = Returned(o.body)
           /\ (~o.rejected /\ ~notOk /\ ~o.isJson) =>
                 (call.result.threw /\ call.result.name = "SyntaxError")

\* createTodo got 201 with a todo and returned it
C18_Witness ==
    /\ call.phase = "settled" /\ call.api = "createTodo"
    /\ call.outcome.status = 201 /\ call.outcome.body.kind = "object"
    /\ call.result = Returned(call.outcome.body)

\* C19: each todoApi function issues exactly one request with its own method
\* and target; useTodos uses fetchTodos, createTodo, deleteTodo and toggleTodo
\* and never fetchTodo.
C19_OneRequestPerCall ==
    call.phase # "idle" =>
        /\ Len(call.requests) = 1
        /\ LET r == call.requests[1] IN
           CASE call.api = "fetchTodos" ->
                  r.method = "GET" /\ r.target = <<>> /\ r.body = NoBody
             [] call.api = "createTodo" ->
                  r.method = "POST" /\ r.target = <<>> /\ r.body = [name |-> call.args.name]
             [] call.api = "fetchTodo" ->
                  r.method = "GET" /\ r.target = <<call.args.id>> /\ r.body = NoBody
             [] call.api = "deleteTodo" ->
                  r.method = "DELETE" /\ r.target = <<call.args.id>> /\ r.body = NoBody
             [] call.api = "toggleTodo" ->
                  /\ r.method = "PATCH" /\ r.target = <<call.args.id>>
                  /\ r.body = [completed |-> call.args.completed]
             [] OTHER -> FALSE
        /\ call.caller \in HookCallers
              => call.api \in {"fetchTodos", "createTodo", "deleteTodo", "toggleTodo"}
        /\ (call.api = "fetchTodo") = (call.caller = "detail")

\* toggleTodo of the hook has sent its PATCH for todo 2
C19_Witness ==
    /\ call.phase = "sent" /\ call.caller = "toggle" /\ call.args.id = 2
    /\ call.requests = <<[method |-> "PATCH", target |-> <<2>>, headers |-> JsonHeaders,
                          body |-> [completed |-> TRUE]]>>

\* C11: '/' shows the todo list page, '/todos/<id>' the detail page for that
\* id, every other path the 'nenalezeno' element; exactly one of them is shown.
C11_RouteSelection ==
    /\ Cardinality(Routes(path)) = 1
    /\ Routes(path) =
         IF path = <<>> THEN {"TodoListPage"}
         ELSE IF Len(path) = 2 /\ path[1] = "todos" THEN {"TodoDetailPage"}
         ELSE {"nenalezeno"}
    /\ Routes(path) = {"TodoDetailPage"} => (query.observed /\ query.key = path[2])

\* a path below a detail path shows the not-found element
C11_Witness ==
    /\ Len(path) = 3 /\ path[1] = "todos" /\ path[2] = "1"
    /\ Routes(path) = {"nenalezeno"}

\* C12: the detail page requests the todo whose id is the numeric value of the
\* route's id parameter and shows exactly one of: only 'Error' when the request
\* failed, the loading text while the request is in progress, the todo's JSON
\* once it succeeded; the todo is never shown together with 'Error'.
C12_DetailViews ==
    DetailShown =>
        /\ query.fetching =>
              /\ Len(query.requests) = 1
              /\ query.requests[1].method = "GET"
              /\ query.requests[1].target = <<ToNumber(path[2])>>
        /\ Cardinality({v \in {"error", "loading", "todo"} :
                           \/ v = "error" /\ DetailView.error
                           \/ v = "loading" /\ DetailView.loading
                           \/ v = "todo" /\ DetailView.todo}) = 1
        /\ DetailView.error = (query.status = "error")
        /\ DetailView.loading => (query.fetching /\ ~query.hasData /\ DetailView.loadingId = path[2])
        /\ DetailView.todo =>
              /\ query.hasData /\ DetailView.json = query.data
              /\ DetailView.json.id = ToNumber(path[2])
        /\ ~(DetailView.todo /\ DetailView.error)

\* the todo was fetched, a later fetch of it failed: only 'Error' is shown
C12_Witness ==
    /\ DetailShown /\ path[2] = "01"
    /\ query.status = "error" /\ query.hasData /\ query.data.id = 1
    /\ DetailView.error /\ ~DetailView.todo

\* C21: the button of the error message invokes refetch, which is fetchTodos;
\* after a failed operation followed by a refetch that succeeds, with no other
\* operation in between, error is null and the local list is the list the
\* server returned.
C21_RefetchRecovers ==
    /\ []((ListShown /\ ListView.errorMessage.shown)
             => ListView.errorMessage.button = "refetch")
    /\ [][(mounted /\ Starts("fetch")) =>
            /\ error # Null
            /\ reqs'[Len(reqs')].by = "user"
            /\ reqs'[Len(reqs')].http = todoApi("fetchTodos", 0, "", FALSE)]_vars
    /\ [][\A i \in 1..Len(reqs) :
            (/\ reqs[i].op = "fetch" /\ reqs[i].by = "user" /\ reqs[i].ok /\ Completes(i)
             /\ reqs[i].alone /\ i = Len(reqs))
                => (error' = Null /\ todos' = reqs[i].list)]_vars

\* an add failed, then a refetch alone loaded the list: no message is left
C21_Witness ==
    \E i, j \in 1..Len(reqs) :
        /\ j < i /\ i = Len(reqs)
        /\ Done(j, "add", FALSE)
        /\ Done(i, "fetch", TRUE) /\ reqs[i].by = "user" /\ reqs[i].alone
        /\ error = Null /\ todos = reqs[i].list /\ todos # <<>>

\* C22: submitting the todo form calls addTodo exactly once with the current
\* value of the input, for any value including the empty string, and leaves
\* the input value unchanged.
C22_SubmitAddsInput ==
    /\ []((mounted /\ Len(reqs) < MaxReqs) => ENABLED handleSubmit)
    /\ [][Len(reqs') # Len(reqs) =>
            /\ Len(reqs') = Len(reqs) + 1
            /\ SubSeq(reqs', 1, Len(reqs)) = reqs
            /\ reqs'[Len(reqs')].op \in {"add", "fetch"}
            /\ reqs'[Len(reqs')].op = "add" =>
                  /\ reqs'[Len(reqs')].name = todoName
                  /\ reqs'[Len(reqs')].http[1].body = [name |-> todoName]
                  /\ todoName' = todoName]_vars

\* the empty input was submitted, then "ab" was typed and submitted: the input
\* still holds "ab"
C22_Witness ==
    /\ Len(reqs) >= 3 /\ todoName = "ab"
    /\ reqs[Len(reqs)].op = "add" /\ reqs[Len(reqs)].name = "ab"
    /\ \E i \in 1..Len(reqs) - 1 : reqs[i].op = "add" /\ reqs[i].name = ""

====
